---- MODULE Spec2Model ----
(***************************************************************************)
(* Model of the ark-api request handlers that submit a query, resolve the  *)
(* streaming capability of its memory, relay the memory service's event    *)
(* stream, list the available models and project a stored query:           *)
(*   services/ark-api/ark-api/src/ark_api/api/v1/openai.py                 *)
(*   services/ark-api/ark-api/src/ark_api/api/v1/queries.py                *)
(* One behaviour of the model is one client request, from its arrival to   *)
(* the end of its response. Every await of a handler is one step.          *)
(***************************************************************************)
EXTENDS Integers, Sequences, FiniteSets, TLC

VARIABLES
    pc,             \* position of the handling task
    request,        \* the client request being handled
    query_name,     \* chat: generated job name; raw endpoint: path parameter
    query_resource, \* chat: the QueryV1alpha1 object handed to a_create
    calls,          \* collaborator calls made by this request, in order
    query_dict,     \* local: query.to_dict() of the fetched job
    memory_dict,    \* local: memory.to_dict() of the fetched memory
    streaming_url,  \* chat: result of try_get_streaming_url; raw: memory_stream_url
    job,            \* terminal job resource the completion poller observed
    response,       \* what the handler returned to the client
    upstream,       \* upstream connection and what it has delivered so far
    buffer,         \* raw relay: the partial line held across chunks
    events,         \* what the relay has yielded to the client, in order
    models_list,    \* list_models: the entries collected so far
    listed,         \* list_models: what each answered a_list() returned
    logged          \* list_models: the errors written to the log

vars == <<pc, request, query_name, query_resource, calls, query_dict,
          memory_dict, streaming_url, job, response, upstream, buffer, events,
          models_list, listed, logged>>

(***************************************************************************)
(* Bounds of the model.                                                    *)
(***************************************************************************)
MaxLines == 2       \* lines an upstream delivers to the OpenAI relay
MaxLineLen == 2     \* characters of one such line
MaxBody == 3        \* characters an upstream delivers to the raw relay
MaxMessages == 2    \* chat messages of one request
MaxResources == 2   \* resources the four a_list() calls return in total

(***************************************************************************)
(* Python values. A value carries its type in tag, so that None, a str and *)
(* a dict are told apart the way the interpreter tells them apart.         *)
(***************************************************************************)
PyNone == [tag |-> "none"]
PyStr(s) == [tag |-> "str", s |-> s]
PyDict(f) == [tag |-> "dict", d |-> f]
\* A str the code looks into, kept as the sequence of its pieces.
PyText(t) == [tag |-> "text", t |-> t]
EmptyDict == PyDict(<<>>)

\* A raised exception. http tells an HTTPException (with its status) from
\* any other Exception.
Raise(http, status, msg) ==
    [tag |-> "raise", http |-> http, status |-> status, msg |-> msg]
AttributeError == Raise(FALSE, 0, "'NoneType' object has no attribute 'get'")
IsRaise(v) == "tag" \in DOMAIN v /\ v.tag = "raise"

\* bool(v)
Truthy(v) ==
    CASE v.tag = "none" -> FALSE
      [] v.tag = "str"  -> v.s # ""
      [] v.tag = "dict" -> DOMAIN v.d # {}
      [] v.tag = "text" -> v.t # <<>>

\* obj.get(key, default): a dict answers, None has no attribute get.
DictGet(obj, key, default) ==
    IF obj.tag = "dict"
    THEN IF key \in DOMAIN obj.d THEN obj.d[key] ELSE default
    ELSE AttributeError

\* obj.get(key): the default is None.
DictGet1(obj, key) == DictGet(obj, key, PyNone)

(***************************************************************************)
(* Resources as the collaborator's a_get(...).to_dict() returns them.      *)
(* Every key of a resource is present with a value, present with None, or  *)
(* absent.                                                                 *)
(***************************************************************************)
STREAMING_ENABLED_ANNOTATION == "ark.mckinsey.com/streaming-enabled"
MEMORY_STREAM_ANNOTATION == "ark.mckinsey.com/memory-event-stream-enabled"

AnnotationValues == {"true", "True", "TRUE", "1", "false", ""}
Addresses == {"https://mem.example", "http://10.0.0.7:8080"}
SessionIds == {"s1"}
Uids == {"u1"}

\* The annotations of a resource: None, empty, or one value under key.
AnnotationsOf(key) ==
    {PyNone, EmptyDict} \cup {PyDict(key :> PyStr(v)) : v \in AnnotationValues}

\* metadata: absent, None, without annotations, or with them.
MetadataFragments(key, base) ==
    {<<>>, "metadata" :> PyNone, "metadata" :> PyDict(base)}
    \cup {"metadata" :> PyDict(base @@ ("annotations" :> a)) : a \in AnnotationsOf(key)}

\* A memory's status: absent, None, without address, address None, "" or set.
StatusFragments ==
    {<<>>, "status" :> PyNone, "status" :> EmptyDict,
     "status" :> PyDict("lastResolvedAddress" :> PyNone),
     "status" :> PyDict("lastResolvedAddress" :> PyStr(""))}
    \cup {"status" :> PyDict("lastResolvedAddress" :> PyStr(a)) : a \in Addresses}

MemoryShapes ==
    {PyDict(m @@ s) : m \in MetadataFragments(MEMORY_STREAM_ANNOTATION, <<>>),
                      s \in StatusFragments}

\* A job's spec.memory: absent, None, {}, name None, name "", or a name.
MemoryRefFragments ==
    {<<>>, "memory" :> PyNone, "memory" :> EmptyDict,
     "memory" :> PyDict("name" :> PyNone),
     "memory" :> PyDict("name" :> PyStr("")),
     "memory" :> PyDict("name" :> PyStr("m1"))}

SessionFragments ==
    {<<>>, "sessionId" :> PyStr("")} \cup {"sessionId" :> PyStr(s) : s \in SessionIds}

SpecFragments ==
    {<<>>, "spec" :> PyNone}
    \cup {"spec" :> PyDict(("input" :> PyStr("hi")) @@ m @@ s) :
            m \in MemoryRefFragments, s \in SessionFragments}

PlainSpec == "spec" :> PyDict("input" :> PyStr("hi"))
UidFragments == {<<>>} \cup {"uid" :> PyStr(u) : u \in Uids}
\* The name and namespace every stored job carries in its metadata.
JobIdentity == ("name" :> PyStr("q1")) @@ ("namespace" :> PyStr("default"))
EnabledMetadata(u) ==
    "metadata" :> PyDict(JobIdentity @@ u @@ ("annotations" :>
                                 PyDict(STREAMING_ENABLED_ANNOTATION :> PyStr("true"))))

\* The jobs a fetch returns: every metadata over a plain spec, and every
\* spec under stream-enabled metadata with and without a uid.
JobShapes ==
    {PyDict(m @@ PlainSpec) :
        m \in MetadataFragments(STREAMING_ENABLED_ANNOTATION,
                                JobIdentity @@ ("uid" :> PyStr("u1")))}
    \cup {PyDict(EnabledMetadata(u) @@ s) : u \in UidFragments, s \in SpecFragments}

\* A failed fetch: the resource does not exist, or the transport failed.
NotFound == Raise(FALSE, 404, "ApiException: (404) Not Found")
TransportError == Raise(FALSE, 0, "ConnectError: connection refused")
FetchFailures == {NotFound, TransportError}

(***************************************************************************)
(* try_get_streaming_url (openai.py 60-98), its two awaits apart.          *)
(***************************************************************************)
\* Faulty variant of ResolveMemoryName: the job's memory reference is ignored.
ResolveMemoryName_IgnoresReference(qd) ==
    LET spec == DictGet(qd, "spec", EmptyDict)
    IN  IF IsRaise(spec) THEN spec ELSE PyStr("default")

\* openai.py 68-72: the name of the memory to fetch, or the exception raised.
ResolveMemoryName(qd) ==
    LET spec == DictGet(qd, "spec", EmptyDict)
        memory_spec == DictGet1(spec, "memory")
        name == DictGet1(memory_spec, "name")
    IN  IF IsRaise(spec) THEN spec
        ELSE IF IsRaise(memory_spec) THEN memory_spec
        ELSE IF ~Truthy(memory_spec) THEN PyStr("default")
        ELSE IF IsRaise(name) THEN name
        ELSE IF Truthy(name) THEN name
        ELSE PyStr("default")

\* Faulty variant of IsExactlyTrue: the comparison ignores case.
IsExactlyTrue_IgnoresCase(v) == v.tag = "str" /\ v.s \in {"true", "True", "TRUE"}

\* openai.py 80: annotations.get(key) == "true"
IsExactlyTrue(v) == v.tag = "str" /\ v.s = "true"

\* openai.py 94: the f-string of the streaming URL
FormatStreamingUrl(base_url, name) ==
    base_url \o "/stream/" \o name \o "?from-beginning=true&wait-for-query=30s"

\* Faulty variant of StreamingUrlOf: the address is tested against None
\* only, so an empty address passes.
StreamingUrlOf_EmptyAddressPasses(md, name) ==
    LET metadata == DictGet(md, "metadata", EmptyDict)
        annotations == DictGet(metadata, "annotations", EmptyDict)
        flag == DictGet1(annotations, MEMORY_STREAM_ANNOTATION)
        status == DictGet(md, "status", EmptyDict)
        base_url == DictGet1(status, "lastResolvedAddress")
    IN  IF IsRaise(metadata) THEN metadata
        ELSE IF IsRaise(annotations) THEN annotations
        ELSE IF IsRaise(flag) THEN flag
        ELSE IF ~(flag.tag = "str" /\ flag.s = "true") THEN PyNone
        ELSE IF IsRaise(status) THEN status
        ELSE IF IsRaise(base_url) THEN base_url
        ELSE IF base_url.tag = "none" THEN PyNone
        ELSE PyStr(FormatStreamingUrl(base_url.s, name))

\* openai.py 78-94: the URL, None, or the exception raised on the way.
StreamingUrlOf(md, name) ==
    LET metadata == DictGet(md, "metadata", EmptyDict)
        annotations == DictGet(metadata, "annotations", EmptyDict)
        flag == DictGet1(annotations, MEMORY_STREAM_ANNOTATION)
        status == DictGet(md, "status", EmptyDict)
        base_url == DictGet1(status, "lastResolvedAddress")
    IN  IF IsRaise(metadata) THEN metadata
        ELSE IF IsRaise(annotations) THEN annotations
        ELSE IF IsRaise(flag) THEN flag
        ELSE IF ~IsExactlyTrue(flag) THEN PyNone
        ELSE IF IsRaise(status) THEN status
        ELSE IF IsRaise(base_url) THEN base_url
        ELSE IF ~Truthy(base_url) THEN PyNone
        ELSE PyStr(FormatStreamingUrl(base_url.s, name))

\* Faulty variant of ResolverExcept: the exception is raised again.
ResolverExcept_Reraises(exc) == exc

\* openai.py 96-98: except Exception: return None
ResolverExcept(exc) == PyNone

(***************************************************************************)
(* Text. A str the relays handle is a sequence of pieces; a piece of        *)
(* upstream data is one character.                                         *)
(***************************************************************************)
LineChars == {"a", " "}
BodyChars == {"a", " ", "\n"}
Whitespace == {" ", "\n", "\t", "\r"}

RECURSIVE LStrip(_)
LStrip(t) ==
    IF t # <<>> /\ Head(t) \in Whitespace THEN LStrip(Tail(t)) ELSE t

RECURSIVE RStrip(_)
RStrip(t) ==
    IF t # <<>> /\ t[Len(t)] \in Whitespace
    THEN RStrip(SubSeq(t, 1, Len(t) - 1)) ELSE t

\* str.strip()
Strip(t) == RStrip(LStrip(t))

\* All texts over chars of at most n characters.
TextsUpTo(chars, n) == UNION {[1..k -> chars] : k \in 0..n}

\* The lines response.aiter_lines() can deliver.
Lines == TextsUpTo(LineChars, MaxLineLen)

\* The chunks response.aiter_text() can deliver when room characters remain.
Chunks(room) == UNION {[1..k -> BodyChars] : k \in 1..room}

(***************************************************************************)
(* Requests.                                                               *)
(***************************************************************************)
QueryNames == {"openai-query-0a1b2c3d", "openai-query-9f8e7d6c"}
StoredQueryNames == {"q1"}
Kinds == {"agent", "team", "model", "tool"}

\* Model identifiers, cut at their separators.
ModelIds ==
    {<<"agent", "/", "a1">>, <<"tool", "/", "t", "/", "x">>,
     <<"bogus", "/", "x">>, <<"Agent", "/", "a1">>}

ChatMessages ==
    {[role |-> "user", content |-> "hi"], [role |-> "system", content |-> "be brief"]}
MessageLists == UNION {[1..k -> ChatMessages] : k \in 0..MaxMessages}

RECURSIVE Concat(_)
Concat(parts) == IF parts = <<>> THEN "" ELSE Head(parts) \o Concat(Tail(parts))

\* utils.query_targets.parse_model_to_query_target
parse_model_to_query_target(model) ==
    IF Len(model) >= 3 /\ model[1] \in Kinds /\ model[2] = "/"
    THEN [type |-> model[1], name |-> Concat(SubSeq(model, 3, Len(model)))]
    ELSE Raise(TRUE, 400, "InvalidTargetError: " \o Concat(model))

\* openai.py 124: "\n".join(f"{msg.role}: {msg.content}" for msg in messages)
RECURSIVE JoinMessages(_)
JoinMessages(messages) ==
    IF messages = <<>> THEN ""
    ELSE LET first == Head(messages).role \o ": " \o Head(messages).content
         IN  IF Len(messages) = 1 THEN first
             ELSE first \o "\n" \o JoinMessages(Tail(messages))

\* Faulty variant of ChatMetadata: the annotation is always set.
ChatMetadata_AlwaysAnnotated(name, stream) ==
    PyDict(("name" :> PyStr(name)) @@ ("namespace" :> PyStr("default"))
           @@ ("annotations" :> PyDict(STREAMING_ENABLED_ANNOTATION :> PyStr("true"))))

\* openai.py 128-132: the metadata of the job to create
ChatMetadata(name, stream) ==
    PyDict(("name" :> PyStr(name)) @@ ("namespace" :> PyStr("default"))
           @@ (IF stream
               THEN "annotations" :> PyDict(STREAMING_ENABLED_ANNOTATION :> PyStr("true"))
               ELSE <<>>))

\* openai.py 135-138: QueryV1alpha1(metadata, spec(input, targets=[target]))
ChatQueryResource(name, stream, input_text, target) ==
    [metadata |-> ChatMetadata(name, stream),
     spec |-> [input |-> input_text, targets |-> <<target>>]]

(***************************************************************************)
(* Responses and the request boundaries.                                   *)
(***************************************************************************)
NoResponse == [kind |-> "none", status |-> 0, body |-> [empty |-> TRUE]]
ErrorResponse(exc) ==
    [kind |-> "error", status |-> exc.status, body |-> [detail |-> exc.msg]]
StreamingResponse(media_type) ==
    [kind |-> "stream", status |-> 200, body |-> [media_type |-> media_type]]
CompletionResponse(completion) == [kind |-> "completion", status |-> 200, body |-> completion]

\* Faulty variant of ChatBoundary: every failure becomes a generic 500.
ChatBoundary_AlwaysGeneric(exc) == Raise(TRUE, 500, exc.msg)

\* openai.py 171-175: an HTTPException is re-raised, anything else becomes 500.
ChatBoundary(exc) == IF exc.http THEN exc ELSE Raise(TRUE, 500, exc.msg)

\* exceptions.handle_k8s_errors: a raised status is kept, anything else
\* becomes a generic 500 with the message preserved.
handle_k8s_errors(exc) == IF exc.http THEN exc ELSE Raise(TRUE, 500, exc.msg)

\* with_ark_client(...) can fail to give a client.
ClientFailure == Raise(FALSE, 0, "ConfigException: cannot load cluster config")

\* a_create can fail: the name is taken, the resource is invalid, transport.
CreateFailures ==
    {Raise(FALSE, 409, "ApiException: (409) Conflict"),
     Raise(FALSE, 422, "ApiException: (422) Unprocessable Entity"),
     TransportError}

(***************************************************************************)
(* utils.query_polling.poll_query_completion: the terminal job it observes *)
(* and the completion or failure it turns it into.                         *)
(***************************************************************************)
Results == {"hello", "line one\nline two"}
NoJob == [status |-> "none", result |-> ""]
TerminalJobs ==
    {[status |-> "Done", result |-> r] : r \in Results}
    \cup {[status |-> "Error", result |-> ""], [status |-> "Canceled", result |-> ""]}
\* The job stays Running past the poller's own bound.
UnfinishedJob == [status |-> "Running", result |-> ""]

poll_query_completion(observed, name, model) ==
    CASE observed.status = "Done" ->
            [id |-> name, object |-> "chat.completion", model |-> Concat(model),
             choices |-> <<[index |-> 0, finish_reason |-> "stop",
                            message |-> [role |-> "assistant",
                                         content |-> observed.result]]>>]
      [] observed.status \in {"Error", "Canceled"} ->
            Raise(TRUE, 500, "JobFailedError: query " \o observed.status)
      [] OTHER -> Raise(TRUE, 504, "PollTimeoutError")

(***************************************************************************)
(* State after construction: no request has arrived.                       *)
(***************************************************************************)
NoRequest == [endpoint |-> "none"]
NoUpstream == [conn |-> "none", status |-> 0, delivered |-> <<>>, end |-> "none"]

Init ==
    /\ pc = "idle"
    /\ request = NoRequest
    /\ query_name = ""
    /\ query_resource = PyNone
    /\ calls = <<>>
    /\ query_dict = PyNone
    /\ memory_dict = PyNone
    /\ streaming_url = PyNone
    /\ job = NoJob
    /\ response = NoResponse
    /\ upstream = NoUpstream
    /\ buffer = <<>>
    /\ events = <<>>
    /\ models_list = <<>>
    /\ listed = <<>>
    /\ logged = <<>>

Call(op, arg, ok) == [op |-> op, arg |-> arg, ok |-> ok]

\* The handler ends by raising exc through boundary.
Fail(exc) ==
    /\ response' = ErrorResponse(exc)
    /\ pc' = "done"

(***************************************************************************)
(* chat_completions (openai.py 116-175)                                    *)
(***************************************************************************)
\* Faulty variant of ChatReceive: the job is submitted whatever target
\* resolution gave.
ChatReceive_SubmitsUnresolved ==
    /\ pc = "idle"
    /\ \E model \in ModelIds, messages \in MessageLists, stream \in BOOLEAN,
          name \in QueryNames :
          LET target == parse_model_to_query_target(model)
          IN  /\ request' = [endpoint |-> "chat", model |-> model,
                             messages |-> messages, stream |-> stream]
              /\ query_name' = name
              /\ query_resource' =
                    ChatQueryResource(name, stream, JoinMessages(messages), target)
              /\ pc' = "chat_acquire"
              /\ UNCHANGED response
    /\ UNCHANGED <<calls, query_dict, memory_dict, streaming_url, job,
                   upstream, buffer, events>>
    /\ UNCHANGED <<models_list, listed, logged>>

\* openai.py 117-140: the request arrives; target, input and job are built.
\* parse_model_to_query_target runs outside the try block.
ChatReceive ==
    /\ pc = "idle"
    /\ \E model \in ModelIds, messages \in MessageLists, stream \in BOOLEAN,
          name \in QueryNames :
          LET target == parse_model_to_query_target(model)
          IN  /\ request' = [endpoint |-> "chat", model |-> model,
                             messages |-> messages, stream |-> stream]
              /\ query_name' = name
              /\ IF IsRaise(target)
                 THEN /\ Fail(target)
                      /\ UNCHANGED query_resource
                 ELSE /\ query_resource' =
                            ChatQueryResource(name, stream, JoinMessages(messages), target)
                      /\ pc' = "chat_acquire"
                      /\ UNCHANGED response
    /\ UNCHANGED <<calls, query_dict, memory_dict, streaming_url, job,
                   upstream, buffer, events>>
    /\ UNCHANGED <<models_list, listed, logged>>

\* openai.py 143: async with with_ark_client("default", "v1alpha1")
ChatAcquireClient ==
    /\ pc = "chat_acquire"
    /\ \/ pc' = "chat_create" /\ UNCHANGED response
       \/ Fail(ChatBoundary(ClientFailure))
    /\ UNCHANGED <<request, query_name, query_resource, calls, query_dict,
                   memory_dict, streaming_url, job, upstream, buffer, events>>
    /\ UNCHANGED <<models_list, listed, logged>>

\* Faulty variant of UsesResolver: the stream flag is not looked at.
UsesResolver_Always(req) == TRUE

\* openai.py 149: the resolver runs for a streaming request only.
UsesResolver(req) == req.stream

\* Faulty variant of ChatCreate: a failed create is attempted again.
ChatCreate_RetriesOnFailure ==
    /\ pc = "chat_create"
    /\ \/ /\ calls' = Append(calls, Call("create", query_name, TRUE))
          /\ pc' = IF UsesResolver(request) THEN "chat_get_query" ELSE "chat_poll"
          /\ UNCHANGED response
       \/ /\ calls = <<>>
          /\ calls' = Append(calls, Call("create", query_name, FALSE))
          /\ UNCHANGED <<pc, response>>
       \/ \E exc \in CreateFailures :
             /\ calls # <<>>
             /\ calls' = Append(calls, Call("create", query_name, FALSE))
             /\ Fail(ChatBoundary(exc))
    /\ UNCHANGED <<request, query_name, query_resource, query_dict,
                   memory_dict, streaming_url, job, upstream, buffer, events>>
    /\ UNCHANGED <<models_list, listed, logged>>

\* openai.py 145-149: await ark_client.queries.a_create(query_resource)
ChatCreate ==
    /\ pc = "chat_create"
    /\ \/ /\ calls' = Append(calls, Call("create", query_name, TRUE))
          /\ pc' = IF UsesResolver(request) THEN "chat_get_query" ELSE "chat_poll"
          /\ UNCHANGED response
       \/ \E exc \in CreateFailures :
             /\ calls' = Append(calls, Call("create", query_name, FALSE))
             /\ Fail(ChatBoundary(exc))
    /\ UNCHANGED <<request, query_name, query_resource, query_dict,
                   memory_dict, streaming_url, job, upstream, buffer, events>>
    /\ UNCHANGED <<models_list, listed, logged>>

\* The resolver returns result to chat_completions.
ResolverReturn(result) ==
    /\ streaming_url' = result
    /\ pc' = "chat_resolved"

\* openai.py 62-72: await ark_client.queries.a_get(query_name), then the
\* memory name.
ResolverGetQuery ==
    /\ pc = "chat_get_query"
    /\ \/ \E exc \in FetchFailures :
             /\ calls' = Append(calls, Call("get_query", query_name, FALSE))
             /\ ResolverReturn(ResolverExcept(exc))
             /\ UNCHANGED query_dict
       \/ \E qd \in JobShapes :
             /\ calls' = Append(calls, Call("get_query", query_name, TRUE))
             /\ query_dict' = qd
             /\ IF IsRaise(ResolveMemoryName(qd))
                THEN ResolverReturn(ResolverExcept(ResolveMemoryName(qd)))
                ELSE pc' = "chat_get_memory" /\ UNCHANGED streaming_url
    /\ UNCHANGED <<request, query_name, query_resource, memory_dict, job,
                   response, upstream, buffer, events>>
    /\ UNCHANGED <<models_list, listed, logged>>

\* openai.py 75-98: await ark_client.memories.a_get(memory_name), then the
\* annotation, the address and the URL.
ResolverGetMemory ==
    /\ pc = "chat_get_memory"
    /\ LET memory_name == ResolveMemoryName(query_dict).s
       IN  \/ \E exc \in FetchFailures :
                /\ calls' = Append(calls, Call("get_memory", memory_name, FALSE))
                /\ ResolverReturn(ResolverExcept(exc))
                /\ UNCHANGED memory_dict
           \/ \E md \in MemoryShapes :
                /\ calls' = Append(calls, Call("get_memory", memory_name, TRUE))
                /\ memory_dict' = md
                /\ LET url == StreamingUrlOf(md, query_name)
                   IN  ResolverReturn(IF IsRaise(url) THEN ResolverExcept(url) ELSE url)
    /\ UNCHANGED <<request, query_name, query_resource, query_dict, job,
                   response, upstream, buffer, events>>
    /\ UNCHANGED <<models_list, listed, logged>>

\* Faulty variant of TakesStreamingPath: the URL is not looked at.
TakesStreamingPath_Always(url) == TRUE

\* openai.py 151: if streaming_url
TakesStreamingPath(url) == Truthy(url)

\* openai.py 150-165: the resolver has returned; stream or fall back. An
\* exception out of the resolver would reach the handler's except clause.
ChatBranch ==
    /\ pc = "chat_resolved"
    /\ IF IsRaise(streaming_url)
       THEN Fail(ChatBoundary(streaming_url))
       ELSE IF TakesStreamingPath(streaming_url)
       THEN /\ response' = StreamingResponse("text/event-stream")
            /\ pc' = "relay_connect"
       ELSE /\ pc' = "chat_poll"
            /\ UNCHANGED response
    /\ query_dict' = PyNone
    /\ memory_dict' = PyNone
    /\ UNCHANGED <<request, query_name, query_resource, calls, streaming_url,
                   job, upstream, buffer, events>>
    /\ UNCHANGED <<models_list, listed, logged>>

\* openai.py 167-169: return await poll_query_completion(...)
ChatPoll ==
    /\ pc = "chat_poll"
    /\ calls' = Append(calls, Call("poll", query_name, TRUE))
    /\ \/ \E observed \in TerminalJobs \cup {UnfinishedJob} :
             LET result == poll_query_completion(observed, query_name, request.model)
             IN  /\ job' = observed
                 /\ IF IsRaise(result)
                    THEN Fail(ChatBoundary(result))
                    ELSE /\ response' = CompletionResponse(result)
                         /\ pc' = "done"
       \/ /\ Fail(ChatBoundary(TransportError))
          /\ UNCHANGED job
    /\ UNCHANGED <<request, query_name, query_resource, query_dict, memory_dict,
                   streaming_url, upstream, buffer, events>>
    /\ UNCHANGED <<models_list, listed, logged>>

(***************************************************************************)
(* The upstream of a relay: the memory service's streaming endpoint.       *)
(***************************************************************************)
UpstreamStatuses == {200, 204, 404, 500}
ConnectFailure == Raise(FALSE, 0, "ConnectError: all connection attempts failed")
ReadError == Raise(FALSE, 0, "ReadError: peer closed connection")
ReadTimeout == Raise(FALSE, 0, "ReadTimeout")

Opened(status) == [conn |-> "open", status |-> status, delivered |-> <<>>, end |-> "none"]
\* Faulty variant of Ended: the connection is left as it is.
Ended_LeavesOpen(up, why) == [up EXCEPT !.end = why]

\* The relay is over for reason why; leaving the async with blocks closes
\* the connection if one was opened.
Ended(up, why) ==
    [up EXCEPT !.conn = IF up.conn = "open" THEN "closed" ELSE up.conn, !.end = why]

(***************************************************************************)
(* proxy_streaming_response (openai.py 101-113)                            *)
(***************************************************************************)
\* Faulty variant of RelayRejects: only server errors end the relay.
RelayRejects_ServerErrorsOnly(status) == status >= 500

\* openai.py 106: if response.status_code != 200: return
RelayRejects(status) == status # 200

\* openai.py 111: if line.strip()
RelayForwards(line) == Strip(line) # <<>>

\* Faulty variant of RelayFrame: the stripped line is yielded.
RelayFrame_Strips(line) == Strip(line) \o <<"\n", "\n">>

\* openai.py 113: yield line + "\n\n"
RelayFrame(line) == line \o <<"\n", "\n">>

\* Faulty variant of RelayConnect: a rejected status falls back to the poller.
RelayConnect_FallsBackToPoller ==
    /\ pc = "relay_connect"
    /\ \/ /\ calls' = Append(calls, Call("connect", streaming_url.s, FALSE))
          /\ upstream' = Ended(upstream, "error")
          /\ pc' = "done"
       \/ \E status \in UpstreamStatuses :
             /\ calls' = Append(calls, Call("connect", streaming_url.s, TRUE))
             /\ IF RelayRejects(status)
                THEN upstream' = Ended(Opened(status), "status") /\ pc' = "chat_poll"
                ELSE upstream' = Opened(status) /\ pc' = "relay_read"
    /\ UNCHANGED <<request, query_name, query_resource, query_dict, memory_dict,
                   streaming_url, job, response, buffer, events>>
    /\ UNCHANGED <<models_list, listed, logged>>

\* openai.py 103-107: the connection is opened and the status looked at.
RelayConnect ==
    /\ pc = "relay_connect"
    /\ \/ /\ calls' = Append(calls, Call("connect", streaming_url.s, FALSE))
          /\ upstream' = Ended(upstream, "error")
          /\ pc' = "done"
       \/ \E status \in UpstreamStatuses :
             /\ calls' = Append(calls, Call("connect", streaming_url.s, TRUE))
             /\ IF RelayRejects(status)
                THEN upstream' = Ended(Opened(status), "status") /\ pc' = "done"
                ELSE upstream' = Opened(status) /\ pc' = "relay_read"
    /\ UNCHANGED <<request, query_name, query_resource, query_dict, memory_dict,
                   streaming_url, job, response, buffer, events>>
    /\ UNCHANGED <<models_list, listed, logged>>

\* openai.py 110-113: the next line of response.aiter_lines()
RelayReadLine ==
    /\ pc = "relay_read"
    /\ Len(upstream.delivered) < MaxLines
    /\ \E line \in Lines :
          /\ upstream' = [upstream EXCEPT !.delivered = Append(@, line)]
          /\ events' = IF RelayForwards(line)
                       THEN Append(events, RelayFrame(line)) ELSE events
    /\ UNCHANGED <<pc, request, query_name, query_resource, calls, query_dict,
                   memory_dict, streaming_url, job, response, buffer>>
    /\ UNCHANGED <<models_list, listed, logged>>

\* openai.py 110: aiter_lines() is exhausted, the upstream has closed.
RelayEof ==
    /\ pc = "relay_read"
    /\ upstream' = Ended(upstream, "eof")
    /\ pc' = "done"
    /\ UNCHANGED <<request, query_name, query_resource, calls, query_dict,
                   memory_dict, streaming_url, job, response, buffer, events>>
    /\ UNCHANGED <<models_list, listed, logged>>

\* openai.py 110: reading fails; the exception leaves the generator. The
\* read timeout is None (openai.py 103), so idling is no failure.
RelayUpstreamError ==
    /\ pc = "relay_read"
    /\ upstream' = Ended(upstream, "error")
    /\ pc' = "done"
    /\ UNCHANGED <<request, query_name, query_resource, calls, query_dict,
                   memory_dict, streaming_url, job, response, buffer, events>>
    /\ UNCHANGED <<models_list, listed, logged>>

(***************************************************************************)
(* stream_query (queries.py 236-308)                                       *)
(***************************************************************************)
PyBool(b) == [tag |-> "bool", b |-> b]

\* queries.py 246-247: whether the job is stream-enabled, or the exception.
StreamingEnabledOf(qd) ==
    LET metadata == DictGet(qd, "metadata", EmptyDict)
        annotations == DictGet(metadata, "annotations", EmptyDict)
        flag == DictGet1(annotations, STREAMING_ENABLED_ANNOTATION)
    IN  IF IsRaise(metadata) THEN metadata
        ELSE IF IsRaise(annotations) THEN annotations
        ELSE IF IsRaise(flag) THEN flag
        ELSE PyBool(IsExactlyTrue(flag))

\* queries.py 253-258: the name of the memory to fetch, or the exception.
StreamMemoryName(qd) ==
    LET spec == DictGet(qd, "spec", EmptyDict)
        memory_spec == DictGet1(spec, "memory")
        name == DictGet1(memory_spec, "name")
    IN  IF IsRaise(spec) THEN spec
        ELSE IF IsRaise(memory_spec) THEN memory_spec
        ELSE IF ~Truthy(memory_spec) THEN PyStr("default")
        ELSE IF IsRaise(name) THEN name
        ELSE IF Truthy(name) THEN name
        ELSE PyStr("default")

\* queries.py 265-266: status.get("lastResolvedAddress"), or the exception.
StreamBaseUrl(md) ==
    LET status == DictGet(md, "status", EmptyDict)
        base_url == DictGet1(status, "lastResolvedAddress")
    IN  IF IsRaise(status) THEN status ELSE base_url

\* Faulty variant of SessionIdOf: the job's own session id is not looked at.
SessionIdOf_UidOnly(qd) ==
    LET uid == DictGet(DictGet(qd, "metadata", EmptyDict), "uid", PyStr(""))
    IN  IF IsRaise(uid) THEN uid
        ELSE IF uid.tag = "none" THEN PyStr("None")
        ELSE uid

\* queries.py 272: spec.sessionId or str(metadata.uid, default "")
SessionIdOf(qd) ==
    LET session == DictGet1(DictGet(qd, "spec", EmptyDict), "sessionId")
        uid == DictGet(DictGet(qd, "metadata", EmptyDict), "uid", PyStr(""))
    IN  IF IsRaise(session) THEN session
        ELSE IF Truthy(session) THEN session
        ELSE IF IsRaise(uid) THEN uid
        ELSE IF uid.tag = "none" THEN PyStr("None")
        ELSE uid

\* queries.py 275: f"{base_url}/stream/{session_id}"
FormatMemoryStreamUrl(base_url, session_id) == base_url \o "/stream/" \o session_id

StreamingNotEnabled == Raise(TRUE, 400, "Streaming not enabled for this query")
StreamAddressUnresolved == Raise(TRUE, 502, "Memory service address not resolved")

\* queries.py 238-240: the request arrives and a client is acquired.
StreamReceive ==
    /\ pc = "idle"
    /\ \E name \in StoredQueryNames :
          /\ request' = [endpoint |-> "stream", namespace |-> "default",
                         query_name |-> name]
          /\ query_name' = name
    /\ \/ pc' = "stream_get_query" /\ UNCHANGED response
       \/ Fail(handle_k8s_errors(ClientFailure))
    /\ UNCHANGED <<query_resource, calls, query_dict, memory_dict, streaming_url,
                   job, upstream, buffer, events>>
    /\ UNCHANGED <<models_list, listed, logged>>

\* queries.py 242-258: the job is fetched and its annotation checked.
StreamGetQuery ==
    /\ pc = "stream_get_query"
    /\ \/ \E exc \in FetchFailures :
             /\ calls' = Append(calls, Call("get_query", query_name, FALSE))
             /\ Fail(handle_k8s_errors(exc))
             /\ UNCHANGED query_dict
       \/ \E qd \in JobShapes :
             /\ calls' = Append(calls, Call("get_query", query_name, TRUE))
             /\ query_dict' = qd
             /\ LET enabled == StreamingEnabledOf(qd)
                IN  IF IsRaise(enabled) THEN Fail(handle_k8s_errors(enabled))
                    ELSE IF ~enabled.b THEN Fail(handle_k8s_errors(StreamingNotEnabled))
                    ELSE IF IsRaise(StreamMemoryName(qd))
                    THEN Fail(handle_k8s_errors(StreamMemoryName(qd)))
                    ELSE pc' = "stream_get_memory" /\ UNCHANGED response
    /\ UNCHANGED <<request, query_name, query_resource, memory_dict,
                   streaming_url, job, upstream, buffer, events>>
    /\ UNCHANGED <<models_list, listed, logged>>

\* queries.py 261-275, 299-308: the memory is fetched, the address read,
\* the URL built and the streaming response returned.
StreamGetMemory ==
    /\ pc = "stream_get_memory"
    /\ LET memory_name == StreamMemoryName(query_dict).s
       IN  \/ \E exc \in FetchFailures :
                /\ calls' = Append(calls, Call("get_memory", memory_name, FALSE))
                /\ Fail(handle_k8s_errors(exc))
                /\ UNCHANGED <<memory_dict, streaming_url, query_dict>>
           \/ \E md \in MemoryShapes :
                /\ calls' = Append(calls, Call("get_memory", memory_name, TRUE))
                /\ LET base_url == StreamBaseUrl(md)
                       session_id == SessionIdOf(query_dict)
                   IN  IF IsRaise(base_url)
                       THEN /\ Fail(handle_k8s_errors(base_url))
                            /\ memory_dict' = md
                            /\ UNCHANGED <<streaming_url, query_dict>>
                       ELSE IF ~Truthy(base_url)
                       THEN /\ Fail(handle_k8s_errors(StreamAddressUnresolved))
                            /\ memory_dict' = md
                            /\ UNCHANGED <<streaming_url, query_dict>>
                       ELSE IF IsRaise(session_id)
                       THEN /\ Fail(handle_k8s_errors(session_id))
                            /\ memory_dict' = md
                            /\ UNCHANGED <<streaming_url, query_dict>>
                       ELSE /\ streaming_url' =
                                  PyStr(FormatMemoryStreamUrl(base_url.s, session_id.s))
                            /\ response' = StreamingResponse("text/plain; charset=utf-8")
                            /\ pc' = "proxy_connect"
                            /\ query_dict' = PyNone
                            /\ memory_dict' = PyNone
    /\ UNCHANGED <<request, query_name, query_resource, job, upstream, buffer, events>>
    /\ UNCHANGED <<models_list, listed, logged>>

(***************************************************************************)
(* stream_query.stream_proxy (queries.py 277-297)                          *)
(***************************************************************************)
\* Faulty variant of ProxyRejects: only server errors end the relay.
ProxyRejects_ServerErrorsOnly(status) == status >= 500

\* queries.py 282: if response.status_code != 200
ProxyRejects(status) == status # 200

\* queries.py 283: the synthetic event for a rejected status
StatusErrorEvent(status) ==
    <<"data: {\"error\": \"Memory service returned " \o ToString(status) \o "\"}",
      "\n", "\n">>

\* queries.py 297: the synthetic event for an exception
FailureEvent(exc) ==
    <<"data: {\"error\": \"Streaming failed: " \o exc.msg \o "\"}", "\n", "\n">>

\* queries.py 293: if line.strip()
ProxyForwards(line) == Strip(line) # <<>>

\* queries.py 294: yield f"{line}\n"
ProxyFrame(line) == line \o <<"\n">>

FirstNewline(buf) == CHOOSE i \in 1..Len(buf) :
                        buf[i] = "\n" /\ \A j \in 1..(i - 1) : buf[j] # "\n"

\* queries.py 291-294: while "\n" in buffer: line, buffer = buffer.split("\n", 1)
RECURSIVE DrainBuffer(_, _)
DrainBuffer(buf, out) ==
    IF \E i \in 1..Len(buf) : buf[i] = "\n"
    THEN LET i == FirstNewline(buf)
             line == SubSeq(buf, 1, i - 1)
         IN  DrainBuffer(SubSeq(buf, i + 1, Len(buf)),
                         IF ProxyForwards(line) THEN Append(out, ProxyFrame(line)) ELSE out)
    ELSE [buffer |-> buf, out |-> out]

\* queries.py 279-286, 296-297: the connection is opened and the status
\* looked at.
ProxyConnect ==
    /\ pc = "proxy_connect"
    /\ \/ /\ calls' = Append(calls, Call("connect", streaming_url.s, FALSE))
          /\ upstream' = Ended(upstream, "error")
          /\ events' = Append(events, FailureEvent(ConnectFailure))
          /\ pc' = "done"
       \/ \E status \in UpstreamStatuses :
             /\ calls' = Append(calls, Call("connect", streaming_url.s, TRUE))
             /\ IF ProxyRejects(status)
                THEN /\ upstream' = Ended(Opened(status), "status")
                     /\ events' = Append(events, StatusErrorEvent(status))
                     /\ pc' = "done"
                ELSE /\ upstream' = Opened(status)
                     /\ pc' = "proxy_read"
                     /\ UNCHANGED events
    /\ buffer' = <<>>
    /\ UNCHANGED <<request, query_name, query_resource, query_dict, memory_dict,
                   streaming_url, job, response>>
    /\ UNCHANGED <<models_list, listed, logged>>

\* queries.py 287-294: the next chunk of response.aiter_text()
ProxyReadChunk ==
    /\ pc = "proxy_read"
    /\ Len(upstream.delivered) < MaxBody
    /\ \E chunk \in Chunks(MaxBody - Len(upstream.delivered)) :
          LET drained == DrainBuffer(buffer \o chunk, events)
          IN  /\ upstream' = [upstream EXCEPT !.delivered = @ \o chunk]
              /\ buffer' = drained.buffer
              /\ events' = drained.out
    /\ UNCHANGED <<pc, request, query_name, query_resource, calls, query_dict,
                   memory_dict, streaming_url, job, response>>
    /\ UNCHANGED <<models_list, listed, logged>>

\* queries.py 287: aiter_text() is exhausted, the upstream has closed.
ProxyEof ==
    /\ pc = "proxy_read"
    /\ upstream' = Ended(upstream, "eof")
    /\ pc' = "done"
    /\ UNCHANGED <<request, query_name, query_resource, calls, query_dict,
                   memory_dict, streaming_url, job, response, buffer, events>>
    /\ UNCHANGED <<models_list, listed, logged>>

\* queries.py 280, 287, 296-297: reading fails, or nothing arrives within
\* the client's default read timeout; the except clause yields an event.
ProxyUpstreamError ==
    /\ pc = "proxy_read"
    /\ \E exc \in {ReadError, ReadTimeout} :
          events' = Append(events, FailureEvent(exc))
    /\ upstream' = Ended(upstream, "error")
    /\ pc' = "done"
    /\ UNCHANGED <<request, query_name, query_resource, calls, query_dict,
                   memory_dict, streaming_url, job, response, buffer>>
    /\ UNCHANGED <<models_list, listed, logged>>

\* The client goes away while a relay runs: the generator is cancelled and
\* its async with blocks are left.
ClientDisconnect ==
    /\ pc \in {"relay_connect", "relay_read", "proxy_connect", "proxy_read"}
    /\ upstream' = Ended(upstream, "disconnect")
    /\ pc' = "done"
    /\ UNCHANGED <<request, query_name, query_resource, calls, query_dict,
                   memory_dict, streaming_url, job, response, buffer, events>>
    /\ UNCHANGED <<models_list, listed, logged>>

(***************************************************************************)
(* list_models (openai.py 24-44, 178-220)                                  *)
(***************************************************************************)
\* openai.py 24, cut at its directives and literals.
TIMESTAMP_FORMAT ==
    <<"%Y", "-", "%m", "-", "%d", "T", "%H", ":", "%M", ":", "%S", "Z">>

\* The numerals the timestamps of the model are written with.
NumeralValue ==
    ("2024" :> 2024) @@ ("2025" :> 2025) @@ ("00" :> 0) @@ ("01" :> 1)
    @@ ("06" :> 6) @@ ("13" :> 13) @@ ("30" :> 30) @@ ("59" :> 59)

\* The values time.strptime accepts for a directive.
DirectiveRange(directive) ==
    CASE directive = "%Y" -> 1000..9999
      [] directive = "%m" -> 1..12
      [] directive = "%d" -> 1..31
      [] directive = "%H" -> 0..23
      [] directive = "%M" -> 0..59
      [] directive = "%S" -> 0..61

IsDirective(piece) == piece \in {"%Y", "%m", "%d", "%H", "%M", "%S"}

ValueError ==
    Raise(FALSE, 0, "ValueError: time data does not match format '%Y-%m-%dT%H:%M:%SZ'")
KeyError == Raise(FALSE, 0, "KeyError: 'name'")

\* time.strptime(text, format): the fields of the time, or ValueError when
\* the text does not match the format piece by piece.
strptime(text, format) ==
    IF /\ Len(text) = Len(format)
       /\ \A i \in 1..Len(format) :
             IF IsDirective(format[i])
             THEN /\ text[i] \in DOMAIN NumeralValue
                  /\ NumeralValue[text[i]] \in DirectiveRange(format[i])
             ELSE text[i] = format[i]
    THEN [fields |-> [i \in {j \in 1..Len(format) : IsDirective(format[j])}
                         |-> NumeralValue[text[i]]]]
    ELSE ValueError

\* int(time.mktime(struct_time)) and int(time.time()): an instant read off
\* the parsed fields, or off the server's clock.
mktime(struct_time) == [tag |-> "time", clock |-> FALSE, fields |-> struct_time.fields]
CurrentTime == [tag |-> "time", clock |-> TRUE, fields |-> <<>>]

\* openai.py 27-34
_parse_timestamp(metadata) ==
    LET created_timestamp == DictGet1(metadata, "creationTimestamp")
    IN  IF Truthy(created_timestamp)
        THEN IF IsRaise(strptime(created_timestamp.t, TIMESTAMP_FORMAT))
             THEN strptime(created_timestamp.t, TIMESTAMP_FORMAT)
             ELSE mktime(strptime(created_timestamp.t, TIMESTAMP_FORMAT))
        ELSE CurrentTime

\* openai.py 37-44
_create_model_entry(resource_id, metadata) ==
    LET created == _parse_timestamp(metadata)
    IN  IF IsRaise(created) THEN created
        ELSE [id |-> resource_id, object |-> "model", created |-> created,
              owned_by |-> "ark"]

\* Timestamps a resource can carry: two that match the format, one with
\* fractional seconds, one with a numeric offset, one with month 13.
GoodTimestamps ==
    {<<"2024", "-", "01", "-", "01", "T", "00", ":", "00", ":", "00", "Z">>,
     <<"2025", "-", "06", "-", "30", "T", "13", ":", "30", ":", "59", "Z">>}
BadTimestamps ==
    {<<"2024", "-", "01", "-", "01", "T", "00", ":", "00", ":", "00", ".", "30", "Z">>,
     <<"2024", "-", "01", "-", "01", "T", "00", ":", "00", ":", "00", "+00:00">>,
     <<"2024", "-", "13", "-", "01", "T", "00", ":", "00", ":", "00", "Z">>}

\* metadata.creationTimestamp: absent, None, "", or a timestamp.
TimestampFragments ==
    {<<>>, "creationTimestamp" :> PyNone, "creationTimestamp" :> PyText(<<>>)}
    \cup {"creationTimestamp" :> PyText(t) : t \in GoodTimestamps \cup BadTimestamps}

ResourceNames == {"n1", "n2"}

\* The resources a_list() returns: a named resource with every timestamp,
\* a second name, and a resource whose metadata has no name.
ResourceShapes ==
    {[metadata |-> PyDict(("name" :> PyStr("n1")) @@ t)] : t \in TimestampFragments}
    \cup {[metadata |-> PyDict(("name" :> PyStr("n2"))
                               @@ ("creationTimestamp" :> PyText(t)))] : t \in GoodTimestamps}
    \cup {[metadata |-> PyDict("creationTimestamp" :> PyText(t))] : t \in GoodTimestamps}

ResourceLists(room) == UNION {[1..k -> ResourceShapes] : k \in 0..room}

\* The four blocks of list_models, in the order they run.
ListKinds == <<"agent", "team", "model", "tool">>
ListPc(i) == "list_" \o ListKinds[i]

\* openai.py 187-189 (and 196-198, 205-207, 214-216): the for loop of one
\* block; it stops at the first resource that raises.
RECURSIVE AppendEntries(_, _, _)
AppendEntries(kind, resources, models) ==
    IF resources = <<>> THEN [models_list |-> models, exc |-> PyNone]
    ELSE LET metadata == Head(resources).metadata
             name == IF "name" \in DOMAIN metadata.d THEN metadata.d["name"] ELSE KeyError
             entry == _create_model_entry(kind \o "/" \o name.s, metadata)
         IN  IF IsRaise(name) THEN [models_list |-> models, exc |-> name]
             ELSE IF IsRaise(entry) THEN [models_list |-> models, exc |-> entry]
             ELSE AppendEntries(kind, Tail(resources), Append(models, entry))

\* openai.py 191: logger.error(f"Failed to list agents: {e}")
LogRecord(kind, exc) == [kind |-> kind, msg |-> "Failed to list " \o kind \o "s: " \o exc.msg]

\* openai.py 220
ListResponse(models) ==
    [kind |-> "list", status |-> 200, body |-> [object |-> "list", data |-> models]]

\* No handler catches it: the framework answers for the application.
UnhandledError == Raise(TRUE, 500, "Internal Server Error")

\* The resources the answered a_list() calls have returned so far.
RECURSIVE TotalListed(_)
TotalListed(answers) ==
    IF answers = <<>> THEN 0
    ELSE Len(Head(answers).resources) + TotalListed(Tail(answers))

\* openai.py 179-183: the request arrives and a client is acquired.
ListReceive ==
    /\ pc = "idle"
    /\ request' = [endpoint |-> "models"]
    /\ \/ pc' = ListPc(1) /\ UNCHANGED response
       \/ Fail(UnhandledError)
    /\ UNCHANGED <<query_name, query_resource, calls, query_dict, memory_dict,
                   streaming_url, job, upstream, buffer, events, models_list,
                   listed, logged>>

\* One block of list_models: a_list() is awaited, its resources converted
\* and appended one by one, and any exception logged (openai.py 185-191 for
\* agents). After the last block the response is returned (openai.py 220).
ListKind(i) ==
    /\ pc = ListPc(i)
    /\ LET kind == ListKinds[i]
           Finish(models) ==
               IF i < Len(ListKinds)
               THEN pc' = ListPc(i + 1) /\ UNCHANGED response
               ELSE pc' = "done" /\ response' = ListResponse(models)
       IN  \/ \E exc \in FetchFailures :
                /\ calls' = Append(calls, Call("list", kind, FALSE))
                /\ logged' = Append(logged, LogRecord(kind, exc))
                /\ Finish(models_list)
                /\ UNCHANGED <<models_list, listed>>
           \/ \E resources \in ResourceLists(MaxResources - TotalListed(listed)) :
                LET result == AppendEntries(kind, resources, models_list)
                IN  /\ calls' = Append(calls, Call("list", kind, TRUE))
                    /\ listed' = Append(listed, [kind |-> kind, resources |-> resources])
                    /\ models_list' = result.models_list
                    /\ logged' = IF IsRaise(result.exc)
                                 THEN Append(logged, LogRecord(kind, result.exc))
                                 ELSE logged
                    /\ Finish(result.models_list)
    /\ UNCHANGED <<request, query_name, query_resource, query_dict, memory_dict,
                   streaming_url, job, upstream, buffer, events>>

\* openai.py 185-191
ListAgents == ListKind(1)
\* openai.py 194-200
ListTeams == ListKind(2)
\* openai.py 203-209
ListModels == ListKind(3)
\* openai.py 212-220
ListTools == ListKind(4)


(***************************************************************************)
(* get_query and query_to_detail_response (queries.py 51-84, 158-165)      *)
(***************************************************************************)
TypeError == Raise(FALSE, 0, "TypeError: 'NoneType' object is not subscriptable")

\* obj[key]: a dict answers or raises KeyError, None cannot be subscripted.
DictItem(obj, key) ==
    IF obj.tag = "dict"
    THEN IF key \in DOMAIN obj.d THEN obj.d[key]
         ELSE Raise(FALSE, 0, "KeyError: '" \o key \o "'")
    ELSE IF IsRaise(obj) THEN obj
    ELSE TypeError

\* queries.py 61-65: StreamingInfo(enabled=True, url=..., sessionId=...)
StreamingInfo(url, session_id) ==
    [tag |-> "info", enabled |-> TRUE, url |-> url, sessionId |-> session_id]

\* The first of the values that is a raised exception, None when none is.
RECURSIVE FirstRaise(_)
FirstRaise(values) ==
    IF values = <<>> THEN PyNone
    ELSE IF IsRaise(Head(values)) THEN Head(values)
    ELSE FirstRaise(Tail(values))

\* queries.py 51-84: the detail projection of a job, or the exception.
query_to_detail_response(query) ==
    LET spec == DictItem(query, "spec")
        metadata == DictItem(query, "metadata")
        annotations == DictGet(metadata, "annotations", EmptyDict)
        flag == DictGet1(annotations, STREAMING_ENABLED_ANNOTATION)
        session == DictGet1(spec, "sessionId")
        uid == DictGet(metadata, "uid", PyStr(""))
        session_id == IF IsRaise(session) THEN session
                      ELSE IF Truthy(session) THEN session
                      ELSE IF IsRaise(uid) THEN uid
                      ELSE IF uid.tag = "none" THEN PyStr("None")
                      ELSE uid
        namespace == DictItem(metadata, "namespace")
        name == DictItem(metadata, "name")
        before == FirstRaise(<<spec, metadata, annotations, flag>>)
        inside == FirstRaise(<<session_id, namespace, name>>)
        after == FirstRaise(<<name, namespace, DictItem(spec, "input"),
                              DictGet1(spec, "memory"), session>>)
    IN  IF IsRaise(before) THEN before
        ELSE IF IsExactlyTrue(flag) /\ IsRaise(inside) THEN inside
        ELSE IF IsRaise(after) THEN after
        ELSE [name |-> name, namespace |-> namespace,
              input |-> DictItem(spec, "input"),
              memory |-> DictGet1(spec, "memory"),
              sessionId |-> session,
              streaming |-> IF IsExactlyTrue(flag)
                            THEN StreamingInfo("/api/v1/namespaces/" \o namespace.s
                                               \o "/queries/" \o name.s \o "/stream",
                                               session_id)
                            ELSE PyNone]

DetailResponse(detail) == [kind |-> "detail", status |-> 200, body |-> detail]

\* queries.py 160-162: the request arrives and a client is acquired.
DetailReceive ==
    /\ pc = "idle"
    /\ \E name \in StoredQueryNames :
          /\ request' = [endpoint |-> "detail", namespace |-> "default",
                         query_name |-> name]
          /\ query_name' = name
    /\ \/ pc' = "detail_get_query" /\ UNCHANGED response
       \/ Fail(handle_k8s_errors(ClientFailure))
    /\ UNCHANGED <<query_resource, calls, query_dict, memory_dict, streaming_url,
                   job, upstream, buffer, events, models_list, listed, logged>>

\* queries.py 163-165: the job is fetched and projected.
DetailGetQuery ==
    /\ pc = "detail_get_query"
    /\ \/ \E exc \in FetchFailures :
             /\ calls' = Append(calls, Call("get_query", query_name, FALSE))
             /\ Fail(handle_k8s_errors(exc))
             /\ UNCHANGED query_dict
       \/ \E qd \in JobShapes :
             /\ calls' = Append(calls, Call("get_query", query_name, TRUE))
             /\ query_dict' = qd
             /\ IF IsRaise(query_to_detail_response(qd))
                THEN Fail(handle_k8s_errors(query_to_detail_response(qd)))
                ELSE /\ response' = DetailResponse(query_to_detail_response(qd))
                     /\ pc' = "done"
    /\ UNCHANGED <<request, query_name, query_resource, memory_dict,
                   streaming_url, job, upstream, buffer, events, models_list,
                   listed, logged>>

Next ==
    \/ ChatReceive
    \/ ChatAcquireClient
    \/ ChatCreate
    \/ ResolverGetQuery
    \/ ResolverGetMemory
    \/ ChatBranch
    \/ ChatPoll
    \/ RelayConnect
    \/ RelayReadLine
    \/ RelayEof
    \/ RelayUpstreamError
    \/ StreamReceive
    \/ StreamGetQuery
    \/ StreamGetMemory
    \/ ProxyConnect
    \/ ProxyReadChunk
    \/ ProxyEof
    \/ ProxyUpstreamError
    \/ ClientDisconnect
    \/ ListReceive
    \/ ListAgents
    \/ ListTeams
    \/ ListModels
    \/ ListTools
    \/ DetailReceive
    \/ DetailGetQuery

Spec == Init /\ [][Next]_vars

(***************************************************************************)
(* Readings of the state the properties below are stated in.               *)
(***************************************************************************)
HasKey(v, k) == v.tag = "dict" /\ k \in DOMAIN v.d

\* The value a resource carries under an annotation key, None when it has
\* no metadata, no annotations or no such key.
AnnotationValue(res, key) ==
    IF /\ HasKey(res, "metadata")
       /\ HasKey(res.d["metadata"], "annotations")
       /\ HasKey(res.d["metadata"].d["annotations"], key)
    THEN res.d["metadata"].d["annotations"].d[key]
    ELSE PyNone

AnnotatedTrue(res, key) ==
    AnnotationValue(res, key).tag = "str" /\ AnnotationValue(res, key).s = "true"

\* The address a memory's status carries, "" when it carries none.
ResolvedAddress(md) ==
    IF /\ HasKey(md, "status")
       /\ HasKey(md.d["status"], "lastResolvedAddress")
       /\ md.d["status"].d["lastResolvedAddress"].tag = "str"
    THEN md.d["status"].d["lastResolvedAddress"].s
    ELSE ""

\* The memory a job refers to, "default" when it names none.
ReferencedMemory(qd) ==
    IF /\ HasKey(qd, "spec")
       /\ HasKey(qd.d["spec"], "memory")
       /\ HasKey(qd.d["spec"].d["memory"], "name")
       /\ qd.d["spec"].d["memory"].d["name"].tag = "str"
       /\ qd.d["spec"].d["memory"].d["name"].s # ""
    THEN qd.d["spec"].d["memory"].d["name"].s
    ELSE "default"

CallsTo(op) == SelectSeq(calls, LAMBDA c : c.op = op)
Created == \E i \in 1..Len(calls) : calls[i].op = "create" /\ calls[i].ok
IsChat == request.endpoint = "chat"
IsRawStream == request.endpoint = "stream"
IsSuccessStatus(status) == status \in 200..299
HasVisibleChar(line) == \E i \in 1..Len(line) : line[i] \notin Whitespace

\* The resolver of this request has returned and the handler has acted on it.
ResolverDone ==
    /\ IsChat
    /\ CallsTo("get_query") # <<>>
    /\ pc \notin {"chat_get_query", "chat_get_memory", "chat_resolved"}

\* What the completion poller returned for the job it observed.
PollerResponse ==
    IF job = NoJob THEN ErrorResponse(ChatBoundary(TransportError))
    ELSE IF IsRaise(poll_query_completion(job, query_name, request.model))
    THEN ErrorResponse(ChatBoundary(poll_query_completion(job, query_name, request.model)))
    ELSE CompletionResponse(poll_query_completion(job, query_name, request.model))

C2_ResolverNeverRaises ==
    (IsChat /\ pc = "chat_resolved") => streaming_url.tag \in {"none", "str"}

\* The shapes that make the resolver's own code raise, and the failed fetches.
C2_Witness ==
    /\ IsChat /\ pc = "chat_resolved"
    /\ streaming_url.tag = "none"
    /\ \/ memory_dict.tag = "dict" /\ IsRaise(StreamingUrlOf(memory_dict, query_name))
       \/ query_dict.tag = "dict" /\ IsRaise(ResolveMemoryName(query_dict))

\* C3: a memory whose capability annotation is absent or anything but the
\* exact string "true" gives no URL, with or without a resolved address.
C3_AnnotationMustBeTrue ==
    (/\ IsChat /\ pc = "chat_resolved" /\ memory_dict.tag = "dict"
     /\ ~AnnotatedTrue(memory_dict, MEMORY_STREAM_ANNOTATION))
    => streaming_url.tag = "none"

C3_Witness ==
    /\ IsChat /\ pc = "chat_resolved" /\ memory_dict.tag = "dict"
    /\ AnnotationValue(memory_dict, MEMORY_STREAM_ANNOTATION) = PyStr("True")
    /\ ResolvedAddress(memory_dict) # ""
    /\ streaming_url.tag = "none"

\* C4: a memory annotated "true" whose status carries no resolved address
\* (no status, no address key, address None or empty) gives no URL.
C4_AddressRequired ==
    (/\ IsChat /\ pc = "chat_resolved" /\ memory_dict.tag = "dict"
     /\ AnnotatedTrue(memory_dict, MEMORY_STREAM_ANNOTATION)
     /\ ResolvedAddress(memory_dict) = "")
    => streaming_url.tag = "none"

C4_Witness ==
    /\ IsChat /\ pc = "chat_resolved" /\ memory_dict.tag = "dict"
    /\ AnnotatedTrue(memory_dict, MEMORY_STREAM_ANNOTATION)
    /\ HasKey(memory_dict, "status")
    /\ HasKey(memory_dict.d["status"], "lastResolvedAddress")
    /\ memory_dict.d["status"].d["lastResolvedAddress"] = PyStr("")
    /\ streaming_url.tag = "none"

\* C5: with both fetches successful, the annotation "true" and an address B,
\* the resolver returns B, "/stream/", the job id, the replay parameter and
\* the 30 s wait parameter; and the memory it fetched is the one the job
\* names, "default" when the job names none.
C5_UrlAndMemoryName ==
    (IsChat /\ pc = "chat_resolved") =>
       /\ \A i \in 1..Len(calls) :
             calls[i].op = "get_memory" => calls[i].arg = ReferencedMemory(query_dict)
       /\ (/\ memory_dict.tag = "dict"
           /\ AnnotatedTrue(memory_dict, MEMORY_STREAM_ANNOTATION)
           /\ ResolvedAddress(memory_dict) # "")
          => streaming_url =
               PyStr(ResolvedAddress(memory_dict) \o "/stream/" \o query_name
                     \o "?from-beginning=true" \o "&wait-for-query=30s")

C5_Witness ==
    /\ IsChat /\ pc = "chat_resolved" /\ memory_dict.tag = "dict"
    /\ ReferencedMemory(query_dict) = "m1"
    /\ calls[Len(calls)] = Call("get_memory", "m1", TRUE)
    /\ streaming_url =
         PyStr("https://mem.example/stream/openai-query-0a1b2c3d?from-beginning=true&wait-for-query=30s")

\* C6: a chat request with stream=false makes one create call, never calls
\* the resolver's fetches and never opens a relay connection; after the
\* create it calls the poller once, for the created job; and when the job is
\* Done the response is a completion whose single choice carries the job's
\* result text.
C6_NonStreamingPath ==
    (IsChat /\ ~request.stream) =>
       /\ Len(CallsTo("create")) <= 1
       /\ CallsTo("get_query") = <<>>
       /\ CallsTo("get_memory") = <<>>
       /\ CallsTo("connect") = <<>>
       /\ upstream.conn = "none"
       /\ response.kind # "stream"
       /\ \A i \in 1..Len(calls) :
             calls[i].op = "poll" =>
                /\ i = 2
                /\ calls[1] = Call("create", query_name, TRUE)
                /\ calls[i].arg = query_name
       /\ (pc = "done" /\ Created) =>
             Len(CallsTo("create")) = 1 /\ Len(CallsTo("poll")) = 1
       /\ (pc = "done" /\ job.status = "Done") =>
             /\ response.kind = "completion"
             /\ Len(response.body.choices) = 1
             /\ response.body.choices[1].message.content = job.result

C6_Witness ==
    /\ IsChat /\ ~request.stream /\ pc = "done"
    /\ calls = <<Call("create", query_name, TRUE), Call("poll", query_name, TRUE)>>
    /\ job = [status |-> "Done", result |-> "line one\nline two"]
    /\ response.kind = "completion"

RECURSIVE EventsOfNonEmpty(_)
EventsOfNonEmpty(lines) ==
    IF lines = <<>> THEN <<>>
    ELSE (IF Head(lines) # <<>> THEN <<Head(lines) \o <<"\n", "\n">>>> ELSE <<>>)
         \o EventsOfNonEmpty(Tail(lines))

RECURSIVE EventsOfVisible(_)
EventsOfVisible(lines) ==
    IF lines = <<>> THEN <<>>
    ELSE (IF HasVisibleChar(Head(lines)) THEN <<Head(lines) \o <<"\n", "\n">>>> ELSE <<>>)
         \o EventsOfVisible(Tail(lines))

C8_SilentOnBadStatus ==
    (IsChat /\ upstream.conn # "none" /\ ~IsSuccessStatus(upstream.status))
    => /\ pc = "done"
       /\ events = <<>>
       /\ upstream.delivered = <<>>
       /\ upstream.conn = "closed"

C8_Witness ==
    /\ IsChat /\ pc = "done" /\ response.kind = "stream"
    /\ upstream.status = 404 /\ upstream.conn = "closed" /\ events = <<>>

\* C9: when the upstream answers the raw relay with a status that is not a
\* success, the relay is over at once having emitted exactly one event, the
\* synthetic error naming the status; no upstream body was read.
C9_OneErrorEventOnBadStatus ==
    (IsRawStream /\ upstream.conn # "none" /\ ~IsSuccessStatus(upstream.status))
    => /\ pc = "done"
       /\ Len(events) = 1
       /\ events[1] = <<"data: {\"error\": \"Memory service returned "
                          \o ToString(upstream.status) \o "\"}", "\n", "\n">>
       /\ upstream.delivered = <<>>
       /\ buffer = <<>>
       /\ upstream.conn = "closed"

C9_Witness ==
    /\ IsRawStream /\ pc = "done" /\ response.kind = "stream"
    /\ upstream.status = 500 /\ Len(events) = 1

\* C10 as stated: on the raw endpoint a fetched job whose streaming
\* annotation is absent or not exactly "true" makes the request fail with
\* status 400, with no memory fetched and no connection opened.
C10_NotEnabledFailsWith400 ==
    (/\ IsRawStream /\ query_dict.tag = "dict"
     /\ ~AnnotatedTrue(query_dict, STREAMING_ENABLED_ANNOTATION))
    => /\ pc = "done"
       /\ response.kind = "error"
       /\ response.status = 400
       /\ CallsTo("get_memory") = <<>>
       /\ CallsTo("connect") = <<>>
       /\ upstream.conn = "none"

\* The part of C10 the code keeps for every job: without the annotation
\* "true" the request fails, no memory is fetched and no connection opened.
C10_NotEnabledNeverConnects ==
    (/\ IsRawStream /\ query_dict.tag = "dict"
     /\ ~AnnotatedTrue(query_dict, STREAMING_ENABLED_ANNOTATION))
    => /\ pc = "done"
       /\ response.kind = "error"
       /\ response.status \in {400, 500}
       /\ response.status = 500 =>
             \/ (HasKey(query_dict, "metadata") /\ query_dict.d["metadata"].tag = "none")
             \/ /\ HasKey(query_dict, "metadata")
                /\ HasKey(query_dict.d["metadata"], "annotations")
                /\ query_dict.d["metadata"].d["annotations"].tag = "none"
       /\ CallsTo("get_memory") = <<>>
       /\ CallsTo("connect") = <<>>
       /\ upstream.conn = "none"

\* The memory of a raw-stream request gives no address: its fetch failed, or
\* it was fetched and its status is absent, None, or holds no non-empty
\* address.
StreamUnresolved ==
    /\ IsRawStream
    /\ CallsTo("get_memory") # <<>>
    /\ \/ ~CallsTo("get_memory")[1].ok
       \/ memory_dict.tag = "dict" /\ ResolvedAddress(memory_dict) = ""

\* C11: on the raw stream endpoint, for a job annotated "true", every way
\* the address cannot be resolved (the memory fetch fails or finds nothing,
\* the memory has no status, the address is absent or empty) makes the
\* request fail with status 502, and no streaming connection is opened.
C11_UnresolvedFailsWith502 ==
    StreamUnresolved
    => /\ pc = "done"
       /\ response.kind = "error"
       /\ response.status = 502
       /\ CallsTo("connect") = <<>>
       /\ upstream.conn = "none"

\* The part of C11 the code keeps: an unresolvable address always fails the
\* request without a connection, and the status is 502 exactly when the
\* memory was fetched and its status is absent or a mapping.
C11_UnresolvedNeverConnects ==
    StreamUnresolved
    => /\ pc = "done"
       /\ response.kind = "error"
       /\ response.status \in {500, 502}
       /\ response.status = 502 <=>
             /\ CallsTo("get_memory")[1].ok
             /\ ~(HasKey(memory_dict, "status") /\ memory_dict.d["status"].tag = "none")
       /\ CallsTo("connect") = <<>>
       /\ upstream.conn = "none"

C11_Witness ==
    /\ StreamUnresolved
    /\ CallsTo("get_memory")[1].ok
    /\ response.kind = "error"
    /\ response.status = 502

\* The lines of a body: the text between its newlines, the text after the
\* last newline included.
RECURSIVE SplitAtNewlines(_, _)
SplitAtNewlines(text, cur) ==
    IF text = <<>> THEN <<cur>>
    ELSE IF Head(text) = "\n" THEN <<cur>> \o SplitAtNewlines(Tail(text), <<>>)
    ELSE SplitAtNewlines(Tail(text), Append(cur, Head(text)))

BodyLines(text) == SplitAtNewlines(text, <<>>)
AllButLast(seq) == SubSeq(seq, 1, Len(seq) - 1)

RECURSIVE ForwardedLines(_)
ForwardedLines(lines) ==
    IF lines = <<>> THEN <<>>
    ELSE (IF HasVisibleChar(Head(lines)) THEN <<Head(lines) \o <<"\n">>>> ELSE <<>>)
         \o ForwardedLines(Tail(lines))

\* C12: on the raw stream endpoint, when the upstream answered with the
\* status the relay accepts and has closed, the client has received every
\* line of the body that holds a visible character exactly once, in order,
\* each terminated by a newline, whatever chunks the body arrived in, the
\* last line included when the body does not end in a newline; nothing is
\* forwarded for an empty line.
C12_EveryLineForwardedOnce ==
    (IsRawStream /\ pc = "done" /\ upstream.status = 200 /\ upstream.end = "eof")
    => events = ForwardedLines(BodyLines(upstream.delivered))

\* The part of C12 the code keeps: whatever the chunks, the client has
\* received exactly the newline-terminated lines that hold a visible
\* character, and the text after the last newline is held in the buffer.
C12_TerminatedLinesForwarded ==
    (IsRawStream /\ upstream.status = 200 /\ upstream.end \in {"none", "eof"})
    => LET lines == BodyLines(upstream.delivered)
       IN  /\ events = ForwardedLines(AllButLast(lines))
           /\ buffer = lines[Len(lines)]

C12_Witness ==
    /\ IsRawStream /\ pc = "done" /\ upstream.end = "eof"
    /\ upstream.delivered = <<"a", "\n", "a">>
    /\ events = <<<<"a", "\n">>>>
    /\ buffer = <<"a">>

\* An event a relay made up itself rather than forwarded: its first piece is
\* not a single character of the upstream body.
IsErrorEvent(event) == event[1] \notin BodyChars

\* C13: on both relays, however the relay ends (non-success status, upstream
\* end of stream, client disconnect, upstream error), the upstream
\* connection it opened is closed and none is open once the relay is over;
\* while the relay reads, the connection is open; and when the upstream
\* ends its stream the client stream ends normally, with no error event.
C13_UpstreamClosedWhenOver ==
    /\ pc = "done" => upstream.conn # "open"
    /\ pc \in {"relay_read", "proxy_read"} => upstream.conn = "open"
    /\ upstream.end # "none"
       => /\ pc = "done"
          /\ upstream.conn = (IF upstream.status # 0 THEN "closed" ELSE "none")
    /\ upstream.end = "eof"
       => /\ response.kind = "stream"
          /\ \A i \in 1..Len(events) : ~IsErrorEvent(events[i])

C13_Witness ==
    /\ IsRawStream
    /\ pc = "done"
    /\ upstream.end = "disconnect"
    /\ upstream.conn = "closed"
    /\ events # <<>>

IsListing == request.endpoint = "models"

\* A models listing whose client was acquired has run its four blocks.
ListingOver == IsListing /\ pc = "done" /\ Len(calls) = Len(ListKinds)

Ids(entries) == [i \in 1..Len(entries) |-> entries[i].id]
IsNamed(resource) == "name" \in DOMAIN resource.metadata.d

\* The ids the resources of the answered list calls stand for, in order.
RECURSIVE ExpectedIds(_)
ExpectedIds(answers) ==
    IF answers = <<>> THEN <<>>
    ELSE LET kind == Head(answers).kind
             resources == Head(answers).resources
         IN  [i \in 1..Len(resources) |->
                 kind \o "/" \o resources[i].metadata.d["name"].s]
             \o ExpectedIds(Tail(answers))

\* What each answered list call contributes when converted on its own.
RECURSIVE ConvertedAlone(_)
ConvertedAlone(answers) ==
    IF answers = <<>> THEN <<>>
    ELSE AppendEntries(Head(answers).kind, Head(answers).resources, <<>>).models_list
         \o ConvertedAlone(Tail(answers))

\* C14: in the models listing, for every subset of kinds whose list call
\* fails, the request succeeds with object "list" and holds, for each kind
\* whose call succeeded, one entry per (named) resource with id
\* "<kind>/<name>", in the order agents, teams, models, tools.
C14_OneEntryPerListedResource ==
    (/\ ListingOver
     /\ \A i \in 1..Len(listed) : \A j \in 1..Len(listed[i].resources) :
           IsNamed(listed[i].resources[j]))
    => /\ response.kind = "list"
       /\ response.status = 200
       /\ response.body.object = "list"
       /\ Ids(response.body.data) = ExpectedIds(listed)

\* The part of C14 the code keeps: the request succeeds whatever subset of
\* the four blocks fails, the blocks are answered in the order agents,
\* teams, models, tools, and the response is the concatenation of what each
\* block yields on its own, so no block changes the entries of another.
C14_KindsIndependent ==
    ListingOver
    => /\ response = ListResponse(models_list)
       /\ models_list = ConvertedAlone(listed)
       /\ \A i \in 1..Len(calls) : calls[i].op = "list" /\ calls[i].arg = ListKinds[i]
       /\ \A i, j \in 1..Len(listed) :
             i < j => \E a, b \in 1..Len(ListKinds) :
                         a < b /\ listed[i].kind = ListKinds[a] /\ listed[j].kind = ListKinds[b]

C14_Witness ==
    /\ ListingOver
    /\ ~calls[1].ok /\ calls[2].ok /\ ~calls[3].ok /\ calls[4].ok
    /\ Ids(response.body.data) = <<"team/n1", "tool/n2">>

\* The ids an entry of a kind can have.
IdsOfKind(kind) == {kind \o "/" \o name : name \in ResourceNames}

\* The kinds whose block ended in its except clause.
FailedKinds == {logged[i].kind : i \in 1..Len(logged)}

\* C15: in the models listing a kind that fails contributes zero entries to
\* the response, also when the failure happens while the k-th listed
\* resource is converted (no name, unparseable creation timestamp) after
\* earlier resources of that kind were converted.
C15_FailedKindContributesNothing ==
    ListingOver
    => \A kind \in FailedKinds : \A i \in 1..Len(response.body.data) :
          response.body.data[i].id \notin IdsOfKind(kind)

\* The part of C15 the code keeps: a kind whose list call itself failed
\* contributes nothing, and a kind that fails at its k-th resource
\* contributes exactly the k-1 entries converted before it.
C15_FailedKindKeepsConvertedPrefix ==
    ListingOver
    => /\ \A c \in 1..Len(calls) :
             ~calls[c].ok => \A i \in 1..Len(models_list) :
                                models_list[i].id \notin IdsOfKind(calls[c].arg)
       /\ \A a \in 1..Len(listed) :
             LET alone == AppendEntries(listed[a].kind, listed[a].resources, <<>>)
             IN  /\ IsRaise(alone.exc) <=> listed[a].kind \in FailedKinds
                 /\ Len(SelectSeq(models_list,
                                  LAMBDA e : e.id \in IdsOfKind(listed[a].kind)))
                    = Len(alone.models_list)
                 /\ IsRaise(alone.exc) =>
                       Len(alone.models_list) < Len(listed[a].resources)

C15_Witness ==
    /\ ListingOver
    /\ "agent" \in FailedKinds
    /\ Ids(models_list) = <<"agent/n1">>
    /\ Len(listed[1].resources) = MaxResources

\* The chat request resolved its target: the job to create was built.
TargetResolved == IsChat /\ "spec" \in DOMAIN query_resource

\* C16: in the chat handler every failure raised after the target was
\* resolved (client acquisition, create, poller) reaches the client as an
\* error response: a failure that carries an HTTP status keeps it, any
\* other becomes 500 with the failure's message as detail, and none ends in
\* a success response.
C16_FailuresReachClient ==
    /\ (TargetResolved /\ pc = "done" /\ calls = <<>>)
       => response = [kind |-> "error", status |-> 500,
                      body |-> [detail |-> ClientFailure.msg]]
    /\ (IsChat /\ CallsTo("create") # <<>> /\ ~CallsTo("create")[1].ok)
       => /\ pc = "done"
          /\ response.kind = "error"
          /\ response.status = 500
          /\ response.body.detail \in {exc.msg : exc \in CreateFailures}
    /\ (IsChat /\ pc = "done" /\ CallsTo("poll") # <<>> /\ job = NoJob)
       => response = [kind |-> "error", status |-> 500,
                      body |-> [detail |-> TransportError.msg]]
    /\ (IsChat /\ pc = "done" /\ CallsTo("poll") # <<>> /\ job # NoJob)
       => LET result == poll_query_completion(job, query_name, request.model)
          IN  IF job.status = "Done" THEN response.kind = "completion"
              ELSE /\ IsRaise(result)
                   /\ response = [kind |-> "error", status |-> result.status,
                                  body |-> [detail |-> result.msg]]
    /\ (IsChat /\ pc = "done" /\ response.kind # "error")
       => /\ Created
          /\ response.kind = "completion" => job.status = "Done"

C16_Witness ==
    /\ IsChat /\ pc = "done"
    /\ CallsTo("poll") # <<>>
    /\ job = UnfinishedJob
    /\ response.kind = "error"
    /\ response.status = 504

\* C17: within one chat request create is called at most once; when it
\* fails it is not called again and nothing follows it: no job fetch, no
\* memory fetch, no relay connection and no poll.
C17_CreateOnceNeverRetried ==
    IsChat
    => /\ Len(CallsTo("create")) <= 1
       /\ \A i \in 1..Len(calls) :
             (calls[i].op = "create" /\ ~calls[i].ok)
             => /\ i = Len(calls)
                /\ pc = "done"
                /\ response.kind = "error"
                /\ upstream.conn = "none"
                /\ job = NoJob
       /\ \A i \in 1..Len(calls) : calls[i].op # "create" => calls[1].op = "create"

C17_Witness ==
    /\ IsChat /\ pc = "done"
    /\ request.stream
    /\ calls = <<Call("create", query_name, FALSE)>>

\* The first n messages as "role: content" lines joined by newlines.
RECURSIVE FlattenedUpTo(_, _)
FlattenedUpTo(messages, n) ==
    IF n = 0 THEN ""
    ELSE (IF n = 1 THEN "" ELSE FlattenedUpTo(messages, n - 1) \o "\n")
         \o messages[n].role \o ": " \o messages[n].content

\* C18: the job handed to create carries the streaming annotation with
\* value "true" if and only if the request has stream=true, and no
\* annotations at all when stream=false; its input is the request's
\* messages flattened to "role: content" lines joined by newlines, in
\* order; and its targets hold exactly one element, the resolved target.
C18_SubmittedJob ==
    (IsChat /\ CallsTo("create") # <<>>)
    => LET metadata == query_resource.metadata.d
           spec == query_resource.spec
       IN  /\ request.stream
              => /\ "annotations" \in DOMAIN metadata
                 /\ metadata["annotations"] =
                       PyDict(STREAMING_ENABLED_ANNOTATION :> PyStr("true"))
           /\ ~request.stream => "annotations" \notin DOMAIN metadata
           /\ metadata["name"] = PyStr(query_name)
           /\ CallsTo("create")[1].arg = query_name
           /\ spec.input = FlattenedUpTo(request.messages, Len(request.messages))
           /\ Len(spec.targets) = 1
           /\ spec.targets[1] = parse_model_to_query_target(request.model)
           /\ spec.targets[1].type = request.model[1]

C18_Witness ==
    /\ IsChat /\ Created
    /\ request.stream
    /\ Len(request.messages) = 2
    /\ request.messages[1] # request.messages[2]
    /\ query_resource.spec.input = "system: be brief\nuser: hi"
    /\ "annotations" \in DOMAIN query_resource.metadata.d

\* The metadata of the resources the list calls of this request returned.
ListedMetadata ==
    UNION {{listed[i].resources[j].metadata : j \in 1..Len(listed[i].resources)} :
              i \in 1..Len(listed)}

IsWellFormed(timestamp) == timestamp.tag = "text" /\ timestamp.t \in GoodTimestamps

\* C19: _parse_timestamp never fails: for metadata without a creation
\* timestamp it returns the current time, for a timestamp that is present
\* but malformed it returns the current time instead of raising, and for a
\* well-formed timestamp it returns the parsed value; so no block of the
\* listing ends with a timestamp error.
C19_ParseTimestampNeverFails ==
    IsListing
    => /\ \A metadata \in ListedMetadata :
             LET created == _parse_timestamp(metadata)
             IN  /\ ~IsRaise(created)
                 /\ IF IsWellFormed(DictGet1(metadata, "creationTimestamp"))
                    THEN ~created.clock
                    ELSE created = CurrentTime
       /\ \A i \in 1..Len(logged) :
             logged[i].msg # LogRecord(logged[i].kind, ValueError).msg

\* The part of C19 the code keeps: the current time for an absent, None or
\* empty timestamp, and the parsed fields for a well-formed one; a
\* timestamp that is present and malformed raises ValueError.
C19_FallbackOnAbsenceOnly ==
    IsListing
    => \A metadata \in ListedMetadata :
          LET timestamp == DictGet1(metadata, "creationTimestamp")
              created == _parse_timestamp(metadata)
          IN  /\ ~Truthy(timestamp) => created = CurrentTime
              /\ IsWellFormed(timestamp)
                 => /\ ~IsRaise(created)
                    /\ ~created.clock
                    /\ created.fields[1] = NumeralValue[timestamp.t[1]]
                    /\ created.fields[11] = NumeralValue[timestamp.t[11]]
              /\ (Truthy(timestamp) /\ ~IsWellFormed(timestamp)) => created = ValueError

C19_Witness ==
    /\ ListingOver
    /\ \E metadata \in ListedMetadata :
          /\ "name" \in DOMAIN metadata.d
          /\ _parse_timestamp(metadata) = ValueError
    /\ \E i \in 1..Len(logged) :
          logged[i].msg = LogRecord(logged[i].kind, ValueError).msg

\* The key a streaming URL of this request is built with: the job id on the
\* OpenAI path, the session id (or the uid standing in for it) on the raw
\* endpoint.
StreamKeys == IF IsChat THEN {query_name} ELSE SessionIds \cup Uids \cup {"", "None"}

\* An address, the stream path segment with its key, and the two query
\* parameters.
FullStreamingUrls ==
    {address \o "/stream/" \o key \o "?from-beginning=true" \o "&wait-for-query=30s" :
        address \in Addresses, key \in StreamKeys}

\* The same without the query parameters.
BareStreamingUrls ==
    {address \o "/stream/" \o key : address \in Addresses, key \in StreamKeys}

\* C20: every streaming URL that is built, on the OpenAI path (keyed by the
\* job id) and on the raw endpoint (keyed by the session id), is the
\* resolved address, the stream path segment with the key, and the two
\* query parameters: replay from the beginning and a bounded wait window.
C20_UrlCarriesBothParameters ==
    /\ streaming_url.tag = "str" => streaming_url.s \in FullStreamingUrls
    /\ \A i \in 1..Len(calls) :
          calls[i].op = "connect" => calls[i].arg \in FullStreamingUrls

\* The part of C20 the code keeps: the URL of the OpenAI path carries both
\* parameters; the URL of the raw endpoint is the address and the path
\* segment only.
C20_ParametersOnOpenAIPathOnly ==
    /\ streaming_url.tag = "str"
       => streaming_url.s \in (IF IsChat THEN FullStreamingUrls ELSE BareStreamingUrls)
    /\ \A i \in 1..Len(calls) :
          calls[i].op = "connect"
          => calls[i].arg \in (IF IsChat THEN FullStreamingUrls ELSE BareStreamingUrls)

C20_Witness ==
    /\ IsRawStream
    /\ CallsTo("connect") = <<Call("connect", "https://mem.example/stream/s1", TRUE)>>

\* The relay's read of the upstream timed out while the upstream was idle.
TimedOutWhileIdle ==
    \E i \in 1..Len(events) : events[i] = FailureEvent(ReadTimeout)

\* C21: once connected with a success status, neither relay ends or emits
\* an error event because the upstream stays idle between events: the
\* stream ends only on upstream close, upstream error or client disconnect,
\* never on a read timeout.
C21_IdleNeverEndsRelay ==
    (upstream.conn # "none" /\ upstream.status = 200)
    => /\ ~TimedOutWhileIdle
       /\ upstream.end \in {"none", "eof", "error", "disconnect"}

\* The part of C21 the code keeps: the OpenAI relay never times out and
\* never emits an event of its own; only the raw relay does, and its
\* timeout ends the stream with an error event as the last event.
C21_OnlyRawRelayTimesOut ==
    /\ IsChat => \A i \in 1..Len(events) : ~IsErrorEvent(events[i])
    /\ TimedOutWhileIdle
       => /\ IsRawStream
          /\ pc = "done"
          /\ upstream.end = "error"
          /\ upstream.conn = "closed"
          /\ events[Len(events)] = FailureEvent(ReadTimeout)

C21_Witness ==
    /\ IsRawStream /\ pc = "done"
    /\ upstream.status = 200
    /\ upstream.delivered = <<"a", "\n">>
    /\ events = <<<<"a", "\n">>, FailureEvent(ReadTimeout)>>

\* The resolver of this streaming chat request returned a URL.
ResolvedUrl == streaming_url.tag = "str" /\ streaming_url.s # ""

\* C22: in a chat request with stream=true exactly one delivery path is
\* taken after a successful create. With a URL from the resolver the
\* handler returns the streaming response and the poller is never invoked,
\* also when the relay meets a non-success status or fails mid-stream;
\* without a URL the poller is invoked and no relay connection is opened.
\* The resolver is invoked only after create has succeeded.
C22_ExactlyOneDeliveryPath ==
    (IsChat /\ request.stream)
    => /\ ~(CallsTo("poll") # <<>> /\ CallsTo("connect") # <<>>)
       /\ (ResolverDone /\ ResolvedUrl)
          => /\ response.kind = "stream"
             /\ CallsTo("poll") = <<>>
             /\ job = NoJob
             /\ pc \in {"relay_connect", "relay_read", "done"}
             /\ pc = "done" => upstream.end # "none"
       /\ (ResolverDone /\ ~ResolvedUrl)
          => /\ CallsTo("connect") = <<>>
             /\ upstream.conn = "none"
             /\ response.kind # "stream"
             /\ pc \in {"chat_poll", "done"}
             /\ pc = "done" => Len(CallsTo("poll")) = 1
       /\ CallsTo("get_query") # <<>>
          => /\ calls[1] = Call("create", query_name, TRUE)
             /\ Len(CallsTo("create")) = 1

C22_Witness ==
    /\ IsChat /\ request.stream /\ pc = "done"
    /\ ResolvedUrl
    /\ upstream.end = "status"
    /\ upstream.status = 500
    /\ response.kind = "stream"

\* C23: when target resolution fails for the request's model identifier
\* (its first segment is not a recognised kind), the chat handler makes no
\* collaborator call at all: no job is created, fetched or polled, and no
\* relay connection is opened.
C23_NoCallWithoutTarget ==
    (IsChat /\ request.model[1] \notin Kinds)
    => /\ calls = <<>>
       /\ pc = "done"
       /\ response.kind = "error"
       /\ query_resource = PyNone
       /\ job = NoJob
       /\ upstream = NoUpstream
       /\ events = <<>>

C23_Witness ==
    /\ IsChat /\ pc = "done"
    /\ request.model = <<"Agent", "/", "a1">>
    /\ request.stream
    /\ calls = <<>>
    /\ response.kind = "error"

IsDetail == request.endpoint = "detail"
CarriesStreamingInfo(detail) == detail.streaming.tag = "info"

\* What the detail endpoint answered agrees with the raw endpoint's check
\* and session key for the job it fetched.
DetailAgreesWithRawEndpoint ==
    (IsDetail /\ response.kind = "detail")
    => LET enabled == StreamingEnabledOf(query_dict)
       IN  /\ ~IsRaise(enabled)
           /\ CarriesStreamingInfo(response.body) <=> enabled.b
           /\ CarriesStreamingInfo(response.body)
              => response.body.streaming.sessionId = SessionIdOf(query_dict)

\* Whether the raw endpoint let the job it fetched pass its check agrees
\* with the detail projection of that job.
RawCheckAgreesWithDetail ==
    (/\ IsRawStream /\ query_dict.tag = "dict"
     /\ ~IsRaise(query_to_detail_response(query_dict)))
    => (CarriesStreamingInfo(query_to_detail_response(query_dict))
        <=> ~(pc = "done" /\ response.status = 400))

\* The raw endpoint builds its URL with the session id the detail projection
\* of the same job reports.
RawUrlUsesDetailSessionId ==
    (/\ IsRawStream /\ pc = "stream_get_memory" /\ pc' = "proxy_connect"
     /\ ~IsRaise(query_to_detail_response(query_dict)))
    => LET detail == query_to_detail_response(query_dict)
       IN  /\ CarriesStreamingInfo(detail)
           /\ \E address \in Addresses :
                 streaming_url' =
                    PyStr(address \o "/stream/" \o detail.streaming.sessionId.s)

\* C24: for any stored job the detail projection and the raw streaming
\* endpoint agree: the detail response carries streaming info if and only
\* if the raw endpoint passes its streaming-enabled check for that job
\* (annotation exactly "true"), and the session id in the streaming info is
\* the session key the raw endpoint puts in the upstream URL (the job's
\* session id when non-empty, otherwise its uid).
C24_DetailAndRawEndpointAgree ==
    /\ [](DetailAgreesWithRawEndpoint /\ RawCheckAgreesWithDetail)
    /\ [][RawUrlUsesDetailSessionId]_vars

C24_Witness ==
    /\ IsDetail /\ pc = "done"
    /\ response.kind = "detail"
    /\ CarriesStreamingInfo(response.body)
    /\ HasKey(query_dict.d["spec"], "sessionId")
    /\ query_dict.d["spec"].d["sessionId"] = PyStr("")
    /\ response.body.streaming.sessionId = PyStr("u1")
    /\ response.body.streaming.url = "/api/v1/namespaces/default/queries/q1/stream"

====
